---- MODULE Spec2Model ----
(***************************************************************************)
(* Model of daraz_scraper.py: the paginated review fetch                   *)
(* (get_daraz_reviews), the sentiment and issue aggregation                *)
(* (analyze_reviews) and the request handler (analyze_product).            *)
(*                                                                         *)
(* Python strings are sequences of one-character strings, so that `in`,    *)
(* lower(), slicing and the regular expression are computed, not assumed.  *)
(***************************************************************************)
EXTENDS Integers, Sequences, FiniteSets, TLC

VARIABLES
    entry,        \* the function that was called from outside
    url,          \* parameter url
    max_pages,    \* parameter max_pages
    pc,           \* position of the call
    page,         \* get_daraz_reviews: loop variable page
    product_id,   \* get_daraz_reviews: product_id.group(1)
    reviews,      \* the list reviews (being collected, then analysed)
    last,         \* get_daraz_reviews: the response of the page just fetched
    requested,    \* every requests.get issued so far: [itemId, pageNo]
    sentiments,   \* analyze_reviews: the list sentiments
    calls,        \* every sentiment_analyzer call so far: [index, text, outcome]
    matched,      \* analyze_reviews: every review that entered the issue loop
    analysis,     \* the value analyze_reviews returned
    response      \* what analyze_product surfaced to the caller

vars == <<entry, url, max_pages, pc, page, product_id, reviews, last,
          requested, sentiments, calls, matched, analysis, response>>

----------------------------------------------------------------------------
(* Bounds of the model.                                                    *)

\* most reviews one run of get_daraz_reviews is served in total
MaxFetched == 3
\* most items one page of the remote list holds
MaxItems == 2
\* longest list handed directly to analyze_reviews
MaxLen == 3
\* largest max_pages handed directly to get_daraz_reviews
MaxPagesArg == 3

(* Program constants.                                                      *)

\* Query(1, ge=1, le=3)
MaxPagesQuery == 3
\* review['content'][:512]
MaxClassifyLen == 512
\* sorted(...)[:5]
TopN == 5

----------------------------------------------------------------------------
(* Strings.                                                                *)

Upper == <<"A","B","C","D","E","F","G","H","I","J","K","L","M","N","O","P","Q","R","S","T","U","V","W","X","Y","Z">>
Lower == <<"a","b","c","d","e","f","g","h","i","j","k","l","m","n","o","p","q","r","s","t","u","v","w","x","y","z">>
Digits == {"0","1","2","3","4","5","6","7","8","9"}

\* Python's None, where a string was expected (no string holds this element)
None == <<"<None>">>

\* the lower-case letter of every upper-case letter
LowerOf ==
    [c \in {Upper[i] : i \in 1..Len(Upper)} |->
        Lower[CHOOSE i \in 1..Len(Upper) : Upper[i] = c]]

\* str.lower() on one character
LowerChar(c) == IF c \in DOMAIN LowerOf THEN LowerOf[c] ELSE c

\* str.lower()
StrLower(s) == [i \in 1..Len(s) |-> LowerChar(s[i])]

\* s[:n]
Slice(s, n) == IF Len(s) <= n THEN s ELSE SubSeq(s, 1, n)

\* k in s
Contains(s, k) ==
    \E i \in 1..(Len(s) - Len(k) + 1) : SubSeq(s, i, i + Len(k) - 1) = k

DomainName == <<"d","a","r","a","z",".","p","k">>

\* the positions where re.search(r'-i(\d+)', url) can match
IdMatches(u) ==
    {i \in 1..(Len(u) - 2) : u[i] = "-" /\ u[i+1] = "i" /\ u[i+2] \in Digits}

\* the end of the greedy run of digits that starts at position i
RECURSIVE DigitRunEnd(_, _)
DigitRunEnd(u, i) ==
    IF i < Len(u) /\ u[i+1] \in Digits THEN DigitRunEnd(u, i + 1) ELSE i

\* re.search(r'-i(\d+)', url).group(1): leftmost match, longest run of digits
IdGroup(u) ==
    LET i == CHOOSE k \in IdMatches(u) : \A j \in IdMatches(u) : k <= j
    IN  SubSeq(u, i + 2, DigitRunEnd(u, i + 2))

----------------------------------------------------------------------------
(* The inputs.                                                             *)

Urls == {
    <<"d","a","r","a","z",".","p","k","/","a","-","i","1","2">>,
    <<"d","a","r","a","z",".","p","k","/","a">>,
    <<"d","a","r","a","z",".","p","k","/","a","-","i","n">>,
    <<"s","h","o","p",".","c","o","m","/","a","-","i","1","2">>,
    <<"s","h","o","p",".","c","o","m">> }

TextOk == <<"o","k">>
TextLate == <<"l","a","t","e"," ","d","e","l","i","v","e","r","y">>
TextCheapLate == <<"C","H","E","A","P"," ","l","a","t","e"," ","d","e","l","i","v","e","r","y"," ","p","r","i","c","e">>
TextWrong == <<"w","r","o","n","g"," ","s","u","p","p","o","r","t">>

\* what item.get('reviewContent') can be: a string, or None
Contents == {None, TextOk, TextLate, TextCheapLate, TextWrong}

\* the review dictionaries (the fields the analysis never reads are left out)
Reviews == [content : Contents]

\* one element of the remote list 'items': a JSON object, or something else
Items == [isDict : {TRUE}, reviewContent : Contents]
           \cup {[isDict |-> FALSE, reviewContent |-> None]}

SeqsUpTo(S, n) == UNION {[1..k -> S] : k \in 0..n}

\* what one page request can come to:
\*   neterr    requests.get raises
\*   notjson   response.json() raises
\*   nomodel   a JSON object without 'model'
\*   itemsnull 'items' is null
\*   items     'items' is a list
Responses(room) ==
    {[kind |-> k, items |-> <<>>] : k \in {"neterr", "notjson", "nomodel", "itemsnull"}}
      \cup {[kind |-> "items", items |-> s] :
              s \in SeqsUpTo(Items, IF room < MaxItems THEN room ELSE MaxItems)}

\* what sentiment_analyzer(content) can come to: a label, or an exception
ClassifierOutcomes == {"POSITIVE", "NEGATIVE", "LABEL_2", "raise"}

----------------------------------------------------------------------------
(* get_daraz_reviews                                                       *)

\* product_id = re.search(r'-i(\d+)', url); "if not product_id"
HasProductId(u) == IdMatches(u) # {}

\* the statements of the try block that come before the for loop raise
RaisesBeforeItems(resp) == resp.kind \in {"neterr", "notjson", "itemsnull"}

\* items = data.get('model', {}).get('items', []): a missing key is the empty list
ItemsOf(resp) == IF resp.kind = "items" THEN resp.items ELSE <<>>

\* the dictionary appended for one item
MapItem(item) == [content |-> item.reviewContent]

\* "for item in items: reviews.append({... item.get(...) ...})": the reviews
\* appended before the loop ends or item.get raises on an item that is no object
RECURSIVE AppendedFrom(_, _)
AppendedFrom(items, i) ==
    IF i > Len(items) \/ ~items[i].isDict
    THEN <<>>
    ELSE <<MapItem(items[i])>> \o AppendedFrom(items, i + 1)

\* the reviews one page adds to the list
PageAppended(resp) ==
    IF RaisesBeforeItems(resp) THEN <<>> ELSE AppendedFrom(ItemsOf(resp), 1)

\* the try block raises, and "except Exception" catches it
PageRaises(resp) ==
    \/ RaisesBeforeItems(resp)
    \/ \E i \in 1..Len(ItemsOf(resp)) : ~ItemsOf(resp)[i].isDict

\* mutant of PageBreaks: the break is missing
PageNeverBreaks(resp) == FALSE

\* "if not items: break", reached only when nothing raised
PageBreaks(resp) == ~PageRaises(resp) /\ ItemsOf(resp) = <<>>

\* mutant of Collect: the new reviews go in front
CollectInFront(rs, new) == new \o rs

\* reviews.append: at the end of the list
Collect(rs, new) == rs \o new

\* mutant of AfterPage: the except clause leaves the loop
AfterPageStopsOnError(resp, p, mp) ==
    IF PageBreaks(resp) \/ PageRaises(resp) \/ p >= mp THEN "fetched" ELSE "fetching"

\* where the loop stands after page p: "continue" and the end of the body go to
\* the next page of range(1, max_pages + 1), "break" and the end of the range
\* to "return reviews"
AfterPage(resp, p, mp) ==
    IF PageBreaks(resp) \/ p >= mp THEN "fetched" ELSE "fetching"

NoPage == [pageNo |-> 0, kind |-> "none", items |-> <<>>]

\* lines 22-27
ExtractId ==
    /\ pc = "get_daraz_reviews"
    /\ IF HasProductId(url)
       THEN /\ product_id' = IdGroup(url)
            /\ page' = 1
            /\ pc' = "fetching"
       ELSE /\ pc' = "fetched"
            /\ UNCHANGED <<product_id, page>>
    /\ reviews' = <<>>
    /\ UNCHANGED <<entry, url, max_pages, last, requested, sentiments, calls,
                   matched, analysis, response>>

\* one pass of the loop body, lines 29-50
FetchPage ==
    /\ pc = "fetching"
    /\ \E resp \in Responses(MaxFetched - Len(reviews)) :
         /\ requested' = Append(requested, [itemId |-> product_id, pageNo |-> page])
         /\ last' = [pageNo |-> page, kind |-> resp.kind, items |-> resp.items]
         /\ reviews' = Collect(reviews, PageAppended(resp))
         /\ pc' = AfterPage(resp, page, max_pages)
         /\ page' = IF AfterPage(resp, page, max_pages) = "fetching"
                    THEN page + 1 ELSE page
    /\ UNCHANGED <<entry, url, max_pages, product_id, sentiments, calls,
                   matched, analysis, response>>

----------------------------------------------------------------------------
(* analyze_reviews                                                         *)

\* the dictionary issue_keywords, in the order it is written
issue_keywords == <<
    [issue |-> "quality", keywords |-> <<
        <<"q","u","a","l","i","t","y">>, <<"p","o","o","r">>,
        <<"c","h","e","a","p">>, <<"b","r","o","k","e","n">>,
        <<"d","e","f","e","c","t","i","v","e">> >>],
    [issue |-> "delivery", keywords |-> <<
        <<"d","e","l","i","v","e","r","y">>, <<"l","a","t","e">>,
        <<"s","l","o","w">>, <<"s","h","i","p","p","i","n","g">> >>],
    [issue |-> "price", keywords |-> <<
        <<"p","r","i","c","e">>, <<"e","x","p","e","n","s","i","v","e">>,
        <<"o","v","e","r","p","r","i","c","e","d">> >>],
    [issue |-> "description", keywords |-> <<
        <<"d","e","s","c","r","i","p","t","i","o","n">>,
        <<"d","i","f","f","e","r","e","n","t">>, <<"w","r","o","n","g">> >>],
    [issue |-> "service", keywords |-> <<
        <<"s","e","r","v","i","c","e">>, <<"c","u","s","t","o","m","e","r">>,
        <<"s","u","p","p","o","r","t">> >>] >>

\* mutant of ExceptLabel: a failed review counts as a complaint
ExceptLabelNegative == "NEGATIVE"

\* the label of a review whose classification raised
ExceptLabel == "NEUTRAL"

\* the label appended for one review, lines 66-71
LabelOf(outcome) == IF outcome = "raise" THEN ExceptLabel ELSE outcome

\* sum(1 for s in sentiments if s == label)
CountLabel(ss, label) == Cardinality({i \in 1..Len(ss) : ss[i] = label})

\* mutant of neu: the negative reviews are not taken off
neuForgetsNegative(total, pos, neg) == total - pos

\* neu = len(reviews) - pos - neg
neu(total, pos, neg) == total - pos - neg

\* negative_reviews, as the indices of reviews, in order
RECURSIVE NegativeFrom(_, _)
NegativeFrom(ss, i) ==
    IF i > Len(ss) THEN <<>>
    ELSE (IF ss[i] = "NEGATIVE" THEN <<i>> ELSE <<>>) \o NegativeFrom(ss, i + 1)

negative_reviews(ss) == NegativeFrom(ss, 1)

\* mutant of AnyKeyword: all() in place of any()
AllKeywords(content, keywords) ==
    \A k \in 1..Len(keywords) : Contains(content, keywords[k])

\* any(keyword in content for keyword in keywords)
AnyKeyword(content, keywords) ==
    \E k \in 1..Len(keywords) : Contains(content, keywords[k])

\* mutant of IssueFrom: the break is missing and the last match stays
RECURSIVE IssueFromLast(_, _)
IssueFromLast(content, j) ==
    IF j > Len(issue_keywords) THEN ""
    ELSE LET rest == IssueFromLast(content, j + 1)
         IN  IF rest # "" THEN rest
             ELSE IF AnyKeyword(content, issue_keywords[j].keywords)
                  THEN issue_keywords[j].issue
                  ELSE ""

\* "for issue, keywords in issue_keywords.items(): if any(...): ... break":
\* the issue counted for the lower-cased content, or "" when the loop runs out
RECURSIVE IssueFrom(_, _)
IssueFrom(content, j) ==
    IF j > Len(issue_keywords) THEN ""
    ELSE IF AnyKeyword(content, issue_keywords[j].keywords)
         THEN issue_keywords[j].issue
         ELSE IssueFrom(content, j + 1)

\* the inner loop for one negative review
IssueOf(review) == IssueFrom(StrLower(review.content), 1)

\* issue_counts[issue] += 1 on a defaultdict(int): a new key goes last
Increment(counts, issue) ==
    IF \E k \in 1..Len(counts) : counts[k].issue = issue
    THEN [k \in 1..Len(counts) |->
            IF counts[k].issue = issue
            THEN [issue |-> issue, count |-> counts[k].count + 1]
            ELSE counts[k]]
    ELSE Append(counts, [issue |-> issue, count |-> 1])

\* the loop over negative_reviews, lines 89-94: issue_counts in insertion order
RECURSIVE CountIssues(_, _, _, _)
CountIssues(rs, neg, n, counts) ==
    IF n > Len(neg) THEN counts
    ELSE LET issue == IssueOf(rs[neg[n]])
         IN  CountIssues(rs, neg, n + 1,
                         IF issue = "" THEN counts ELSE Increment(counts, issue))

\* one insertion of the stable sort: e goes behind every entry whose count is
\* not smaller
RECURSIVE InsertDesc(_, _)
InsertDesc(sorted, e) ==
    IF sorted = <<>> THEN <<e>>
    ELSE IF Head(sorted).count >= e.count
         THEN <<Head(sorted)>> \o InsertDesc(Tail(sorted), e)
         ELSE <<e>> \o sorted

\* mutant of SortedByCount: the list is left in insertion order
UnsortedByCount(items) == items

\* sorted(issue_counts.items(), key=lambda x: x[1], reverse=True): stable
RECURSIVE SortFrom(_, _, _)
SortFrom(items, i, acc) ==
    IF i > Len(items) THEN acc ELSE SortFrom(items, i + 1, InsertDesc(acc, items[i]))

SortedByCount(items) == SortFrom(items, 1, <<>>)

\* dict(sorted(...)[:5])
TopIssues(counts) == Slice(SortedByCount(counts), TopN)

\* the issue loop's record of the reviews it was given
MatchedOf(rs, neg) == [n \in 1..Len(neg) |-> [index |-> neg[n], issue |-> IssueOf(rs[neg[n]])]]

\* the value returned for the empty list, lines 56-61
EmptyAnalysis == [stats |-> [total |-> 0], issues |-> <<>>, time_taken |-> 0]

\* the value returned at lines 96-99
Analysis(rs, ss) ==
    LET pos == CountLabel(ss, "POSITIVE")
        neg == CountLabel(ss, "NEGATIVE")
    IN  [stats |-> [total |-> Len(rs), positive |-> pos, negative |-> neg,
                    neutral |-> neu(Len(rs), pos, neg)],
         issues |-> TopIssues(CountIssues(rs, negative_reviews(ss), 1, <<>>))]

NoAnalysis == [stats |-> [total |-> -1], issues |-> <<>>]

\* "if not reviews", lines 56-61
EnterAnalyze ==
    /\ pc = "analyze_reviews"
    /\ IF reviews = <<>>
       THEN /\ analysis' = EmptyAnalysis
            /\ pc' = "analyzed"
       ELSE /\ pc' = "classifying"
            /\ UNCHANGED analysis
    /\ sentiments' = <<>>
    /\ UNCHANGED <<entry, url, max_pages, page, product_id, reviews, last,
                   requested, calls, matched, response>>

\* one pass of the sentiment loop, lines 65-71
ClassifyOne ==
    /\ pc = "classifying"
    /\ Len(sentiments) < Len(reviews)
    /\ LET i == Len(sentiments) + 1
           content == reviews[i].content
       IN  IF content = None
           THEN \* None[:512] raises TypeError: the classifier is not called
                /\ sentiments' = Append(sentiments, ExceptLabel)
                /\ UNCHANGED calls
           ELSE \E outcome \in ClassifierOutcomes :
                /\ calls' = Append(calls, [index |-> i,
                                           text |-> Slice(content, MaxClassifyLen),
                                           outcome |-> outcome])
                /\ sentiments' = Append(sentiments, LabelOf(outcome))
    /\ UNCHANGED <<entry, url, max_pages, pc, page, product_id, reviews, last,
                   requested, matched, analysis, response>>

\* lines 73-99
Aggregate ==
    /\ pc = "classifying"
    /\ Len(sentiments) = Len(reviews)
    /\ matched' = MatchedOf(reviews, negative_reviews(sentiments))
    /\ analysis' = Analysis(reviews, sentiments)
    /\ pc' = "analyzed"
    /\ UNCHANGED <<entry, url, max_pages, page, product_id, reviews, last,
                   requested, sentiments, calls, response>>

----------------------------------------------------------------------------
(* analyze_product                                                         *)

\* "daraz.pk" not in url
InvalidUrl(u) == ~Contains(u, DomainName)

\* raise HTTPException(status_code=400, detail="Invalid Daraz URL")
InvalidUrlException == [status_code |-> 400, detail |-> "Invalid Daraz URL"]

\* "except Exception as e: raise HTTPException(status_code=500, detail=str(e))":
\* HTTPException is an Exception, so the handler catches the one raised inside
\* the try block as well
ExceptHandler(e) == [status_code |-> 500, detail |-> <<"str", e>>]

\* mutant of NoReviewsResponse: no review is reported as an error
NoReviewsAsError == [status_code |-> 500, detail |-> "No reviews found"]

\* lines 119-126
NoReviewsResponse ==
    [status_code |-> 200, status |-> "success", message |-> "No reviews found",
     data |-> [reviews_count |-> 0, analysis |-> "None"]]

\* lines 130-147; a percentage is kept as the fraction it formats
SuccessResponse(rs, a) ==
    [status_code |-> 200, status |-> "success",
     data |-> [reviews_count |-> Len(rs),
               sentiment |-> [positive |-> a.stats.positive,
                              negative |-> a.stats.negative,
                              neutral |-> a.stats.neutral,
                              positive_percent |-> <<a.stats.positive, Len(rs)>>,
                              negative_percent |-> <<a.stats.negative, Len(rs)>>],
               common_issues |-> a.issues,
               sample_reviews |-> Slice(rs, 3)]]

NoResponse == [status_code |-> 0]

\* lines 111-116, and 149-150 for the exception raised at 113
Validate ==
    /\ pc = "start"
    /\ IF InvalidUrl(url)
       THEN /\ response' = ExceptHandler(InvalidUrlException)
            /\ pc' = "done"
       ELSE /\ pc' = "get_daraz_reviews"
            /\ UNCHANGED response
    /\ UNCHANGED <<entry, url, max_pages, page, product_id, reviews, last,
                   requested, sentiments, calls, matched, analysis>>

\* lines 116-128: get_daraz_reviews has returned and its locals are gone
CheckReviews ==
    /\ pc = "fetched"
    /\ entry = "analyze_product"
    /\ IF reviews = <<>>
       THEN /\ response' = NoReviewsResponse
            /\ pc' = "done"
       ELSE /\ pc' = "analyze_reviews"
            /\ UNCHANGED response
    /\ page' = 0
    /\ product_id' = <<>>
    /\ last' = NoPage
    /\ UNCHANGED <<entry, url, max_pages, reviews, requested, sentiments,
                   calls, matched, analysis>>

\* lines 130-147
Respond ==
    /\ pc = "analyzed"
    /\ entry = "analyze_product"
    /\ response' = SuccessResponse(reviews, analysis)
    /\ pc' = "done"
    /\ UNCHANGED <<entry, url, max_pages, page, product_id, reviews, last,
                   requested, sentiments, calls, matched, analysis>>

----------------------------------------------------------------------------
(* The specifications.                                                     *)

Idle ==
    /\ page = 0
    /\ product_id = <<>>
    /\ last = NoPage
    /\ requested = <<>>
    /\ sentiments = <<>>
    /\ calls = <<>>
    /\ matched = <<>>
    /\ analysis = NoAnalysis
    /\ response = NoResponse

\* a request to GET /analyze
Init ==
    /\ entry = "analyze_product"
    /\ pc = "start"
    /\ url \in Urls
    /\ max_pages \in 1..MaxPagesQuery
    /\ reviews = <<>>
    /\ Idle

Next ==
    \/ Validate
    \/ ExtractId
    \/ FetchPage
    \/ CheckReviews
    \/ EnterAnalyze
    \/ ClassifyOne
    \/ Aggregate
    \/ Respond

Spec == Init /\ [][Next]_vars

\* a call of get_daraz_reviews(url, max_pages)
FetchInit ==
    /\ entry = "get_daraz_reviews"
    /\ pc = "get_daraz_reviews"
    /\ url \in Urls
    /\ max_pages \in 1..MaxPagesArg
    /\ reviews = <<>>
    /\ Idle

FetchNext == ExtractId \/ FetchPage

\* the call runs on: nothing suspends it for ever
FetchSpec == FetchInit /\ [][FetchNext]_vars /\ WF_vars(FetchNext)

\* a call of analyze_reviews(reviews)
AnalyzeInit ==
    /\ entry = "analyze_reviews"
    /\ pc = "analyze_reviews"
    /\ url = <<>>
    /\ max_pages = 0
    /\ reviews \in SeqsUpTo(Reviews, MaxLen)
    /\ Idle

AnalyzeNext == EnterAnalyze \/ ClassifyOne \/ Aggregate

AnalyzeSpec == AnalyzeInit /\ [][AnalyzeNext]_vars

----------------------------------------------------------------------------
(* What the claims speak of, stated apart from the loops above.            *)

\* analyze_reviews has returned
Returned == analysis.stats.total >= 0

\* the order in which the taxonomy is declared
Taxonomy == <<"quality", "delivery", "price", "description", "service">>

TaxonomyIndex(name) == CHOOSE j \in 1..Len(Taxonomy) : Taxonomy[j] = name

\* some keyword of category name occurs in the lower-cased content
Mentions(content, name) ==
    LET lowered == StrLower(content)
    IN  \E j \in 1..Len(issue_keywords) :
            /\ issue_keywords[j].issue = name
            /\ \E k \in 1..Len(issue_keywords[j].keywords) :
                   Contains(lowered, issue_keywords[j].keywords[k])

\* name is the first category of the taxonomy that the content mentions
FirstMentioned(content, name) ==
    /\ name \in {Taxonomy[j] : j \in 1..Len(Taxonomy)}
    /\ Mentions(content, name)
    /\ \A j \in 1..(TaxonomyIndex(name) - 1) : ~Mentions(content, Taxonomy[j])

\* the count the issue list gives a category, 0 when it is not listed
CountOf(issues, name) ==
    IF \E k \in 1..Len(issues) : issues[k].issue = name
    THEN issues[CHOOSE k \in 1..Len(issues) : issues[k].issue = name].count
    ELSE 0

NegativeIndices == {i \in 1..Len(sentiments) : sentiments[i] = "NEGATIVE"}

SortedDescending(issues) ==
    \A a, b \in 1..Len(issues) : a < b => issues[a].count >= issues[b].count

\* the place of a category among the negative reviews, by its first review
FirstSeen(name) ==
    CHOOSE n \in 1..Len(matched) :
        /\ matched[n].issue = name
        /\ \A m \in 1..(n - 1) : matched[m].issue # name

LateDelivery == <<"l","a","t","e"," ","d","e","l","i","v","e","r","y">>

\* the classification of review i failed
Failed(i) ==
    \/ reviews[i].content = None
    \/ \E c \in 1..Len(calls) : calls[c].index = i /\ calls[c].outcome = "raise"

\* the url has no "-i" followed by a digit
LacksIdPattern(u) ==
    ~\E i \in 1..(Len(u) - 2) : u[i] = "-" /\ u[i+1] = "i" /\ u[i+2] \in Digits

\* the page just fetched raised inside the try block
Raised(l) ==
    \/ l.kind \in {"neterr", "notjson", "itemsnull"}
    \/ l.kind = "items" /\ \E i \in 1..Len(l.items) : ~l.items[i].isDict

\* the page just fetched is not the expected object with a list of review items
Malformed(l) == Raised(l) \/ l.kind = "nomodel"

\* the reviews of the items that come before the first item that is no object
GoodPrefix(l) ==
    LET bad == {i \in 1..Len(l.items) : ~l.items[i].isDict}
        n == IF bad = {} THEN Len(l.items)
             ELSE (CHOOSE i \in bad : \A j \in bad : i <= j) - 1
    IN  [i \in 1..n |-> [content |-> l.items[i].reviewContent]]

\* the page just fetched came back well formed and empty
ZeroItems(l) == l.kind = "items" /\ l.items = <<>>

----------------------------------------------------------------------------
(* C1 *)

\* C1 as stated: whatever list analyze_reviews was given, the empty one
\* included, the stats hold three non-negative counts that sum to total, the
\* number of reviews.
C1_CountsSumToTotal ==
    (pc = "analyzed" /\ Returned) =>
        /\ analysis.stats.total = Len(reviews)
        /\ {"positive", "negative", "neutral"} \subseteq DOMAIN analysis.stats
        /\ analysis.stats.positive >= 0
        /\ analysis.stats.negative >= 0
        /\ analysis.stats.neutral >= 0
        /\ analysis.stats.positive + analysis.stats.negative
             + analysis.stats.neutral = analysis.stats.total

\* C1 amended: for a non-empty list the stats hold three non-negative counts
\* that sum to total, the number of reviews; for the empty list the stats hold
\* total = 0 and no count.
C1_CountsSumToTotalNonEmpty ==
    (pc = "analyzed" /\ Returned) =>
        /\ analysis.stats.total = Len(reviews)
        /\ IF reviews = <<>>
           THEN DOMAIN analysis.stats = {"total"}
           ELSE /\ {"positive", "negative", "neutral"} \subseteq DOMAIN analysis.stats
                /\ analysis.stats.positive >= 0
                /\ analysis.stats.negative >= 0
                /\ analysis.stats.neutral >= 0
                /\ analysis.stats.positive + analysis.stats.negative
                     + analysis.stats.neutral = analysis.stats.total

C1_Witness ==
    /\ pc = "analyzed"
    /\ Len(reviews) = 3
    /\ analysis.stats.positive = 1
    /\ analysis.stats.negative = 1
    /\ \E c \in 1..Len(calls) : calls[c].outcome = "LABEL_2"

----------------------------------------------------------------------------
(* C2 *)

\* C2 as stated: the issue list, and common_issues which echoes it, has at most
\* 5 entries, is sorted by count descending, and lists categories of equal
\* count in the order of the taxonomy.
C2_TiesInTaxonomyOrder ==
    (pc \in {"analyzed", "done"} /\ Returned) =>
        /\ Len(analysis.issues) <= 5
        /\ SortedDescending(analysis.issues)
        /\ \A a, b \in 1..Len(analysis.issues) :
               (a < b /\ analysis.issues[a].count = analysis.issues[b].count)
                   => TaxonomyIndex(analysis.issues[a].issue)
                        < TaxonomyIndex(analysis.issues[b].issue)
        /\ pc = "done" => response.data.common_issues = analysis.issues

\* C2 amended: the issue list, and common_issues which echoes it, has at most 5
\* entries, is sorted by count descending, and lists categories of equal count
\* in the order in which each was first met among the negative reviews.
C2_TiesInFirstSeenOrder ==
    (pc \in {"analyzed", "done"} /\ Returned) =>
        /\ Len(analysis.issues) <= 5
        /\ SortedDescending(analysis.issues)
        /\ \A a, b \in 1..Len(analysis.issues) :
               (a < b /\ analysis.issues[a].count = analysis.issues[b].count)
                   => FirstSeen(analysis.issues[a].issue)
                        < FirstSeen(analysis.issues[b].issue)
        /\ pc = "done" => response.data.common_issues = analysis.issues

C2_Witness ==
    /\ pc = "done"
    /\ Returned
    /\ Len(response.data.common_issues) = 2
    /\ response.data.common_issues[1].count = 2
    /\ matched[1].issue = response.data.common_issues[2].issue

----------------------------------------------------------------------------
(* C3 *)

\* C3 as stated: a request whose url does not contain the domain ends in a
\* client error, status 400, and neither a page is fetched nor a review
\* classified.
C3_InvalidUrlIsClientError ==
    (pc = "done" /\ ~Contains(url, DomainName)) =>
        /\ response.status_code = 400
        /\ requested = <<>>
        /\ calls = <<>>

----------------------------------------------------------------------------
(* C4 *)

\* C4 as stated: when the fetch of page p fails, by a network error or by a
\* response that is not the expected object with a list of review items, the
\* page adds nothing, the reviews of the earlier pages are kept, and page p + 1
\* is requested when p < max_pages.
C4_FailedPageSkipped ==
    [][(pc = "fetching" /\ Malformed(last')) =>
          /\ reviews' = reviews
          /\ page < max_pages => (pc' = "fetching" /\ page' = page + 1)]_vars

\* C4 amended: when the fetch of page p raises (a network error, a body that
\* is not JSON, an 'items' that cannot be iterated, an item that is no object),
\* the reviews collected so far are kept, with those of the items of page p
\* that come before the item that raised, the rest of the page is skipped, and
\* page p + 1 is requested when p < max_pages; an object without 'model' does
\* not raise, it counts as a page of zero items and ends the fetch.
C4_RaisingPageSkipped ==
    /\ [][(pc = "fetching" /\ Raised(last')) =>
             /\ reviews' = reviews \o GoodPrefix(last')
             /\ page < max_pages => (pc' = "fetching" /\ page' = page + 1)]_vars
    /\ [][(pc = "fetching" /\ last'.kind = "nomodel") =>
             (reviews' = reviews /\ pc' = "fetched")]_vars

C4_Witness ==
    /\ pc = "fetching"
    /\ page = 3
    /\ last.pageNo = 2
    /\ Raised(last)
    /\ Len(last.items) = 2
    /\ last.items[1].isDict
    /\ Len(reviews) = 2

----------------------------------------------------------------------------
(* C5 *)

\* C5: once a page has come back well formed with zero items, the loop is
\* over: that page is the last one requested, although max_pages may not be
\* reached, and the reviews of the earlier pages are what is returned.
C5_ZeroItemsHalts ==
    /\ [](ZeroItems(last) =>
             /\ pc = "fetched"
             /\ Len(requested) = last.pageNo
             /\ \A r \in 1..Len(requested) : requested[r].pageNo <= last.pageNo)
    /\ [][(pc = "fetching" /\ ZeroItems(last')) => reviews' = reviews]_vars
    /\ [][pc = "fetched" => requested' = requested]_vars

C5_Witness ==
    /\ pc = "fetched"
    /\ ZeroItems(last)
    /\ last.pageNo = 2
    /\ max_pages = 3
    /\ reviews # <<>>

----------------------------------------------------------------------------
(* C6 *)

\* C6: each category's count is the number of negative reviews for which it is
\* the first category, in the order of the taxonomy, with a keyword in the
\* lower-cased content: a review counts for one category at most, and for none
\* when it mentions none.
C6_FirstCategoryOnly ==
    (pc = "analyzed" /\ reviews # <<>>) =>
        /\ \A name \in {Taxonomy[j] : j \in 1..Len(Taxonomy)} :
               CountOf(analysis.issues, name) =
                   Cardinality({i \in NegativeIndices :
                                   FirstMentioned(reviews[i].content, name)})
        /\ \A a, b \in 1..Len(analysis.issues) :
               analysis.issues[a].issue = analysis.issues[b].issue => a = b
        /\ \A a \in 1..Len(analysis.issues) :
               /\ analysis.issues[a].count > 0
               /\ analysis.issues[a].issue \in {Taxonomy[j] : j \in 1..Len(Taxonomy)}

C6_Witness ==
    /\ pc = "analyzed"
    /\ \E i \in NegativeIndices : reviews[i].content = TextCheapLate
    /\ \E i \in NegativeIndices : reviews[i].content = TextOk
    /\ analysis.issues = <<[issue |-> "quality", count |-> 1]>>

----------------------------------------------------------------------------
(* C7 *)

\* C7 as stated: every negative review whose content contains "late delivery"
\* is counted under delivery.
C7_LateDeliveryIsDelivery ==
    (pc = "analyzed" /\ reviews # <<>>) =>
        \A i \in NegativeIndices :
            Contains(reviews[i].content, LateDelivery) =>
                \E n \in 1..Len(matched) :
                    matched[n] = [index |-> i, issue |-> "delivery"]

\* C7 amended: every negative review whose content contains "late delivery"
\* and, lower-cased, no keyword of quality is counted under delivery.
C7_LateDeliveryWithoutQuality ==
    (pc = "analyzed" /\ reviews # <<>>) =>
        /\ \A i \in NegativeIndices :
               (/\ Contains(reviews[i].content, LateDelivery)
                /\ ~Mentions(reviews[i].content, "quality")) =>
                   \E n \in 1..Len(matched) :
                       matched[n] = [index |-> i, issue |-> "delivery"]
        /\ CountOf(analysis.issues, "delivery") >=
               Cardinality({i \in NegativeIndices :
                               /\ Contains(reviews[i].content, LateDelivery)
                               /\ ~Mentions(reviews[i].content, "quality")})

C7_Witness ==
    /\ pc = "analyzed"
    /\ \E i \in NegativeIndices : reviews[i].content = TextLate
    /\ \E i \in NegativeIndices : reviews[i].content = TextCheapLate
    /\ CountOf(analysis.issues, "delivery") = 1

----------------------------------------------------------------------------
(* C8 *)

\* C8: for a non-empty list, a review whose classification fails is labelled
\* NEUTRAL and never enters the issue loop, every other review keeps the label
\* the classifier gave it, the loop goes on after a failure, and the result
\* covers all the reviews.
C8_FailureIsNeutral ==
    /\ [](pc \in {"classifying", "analyzed"} =>
             \A i \in 1..Len(sentiments) :
                 IF Failed(i)
                 THEN /\ sentiments[i] = "NEUTRAL"
                      /\ \A n \in 1..Len(matched) : matched[n].index # i
                 ELSE \E c \in 1..Len(calls) :
                          calls[c].index = i /\ sentiments[i] = calls[c].outcome)
    /\ []((pc = "analyzed" /\ reviews # <<>>) =>
             /\ Len(sentiments) = Len(reviews)
             /\ analysis.stats.total = Len(reviews))
    /\ [][(pc = "classifying" /\ Len(sentiments) < Len(reviews)) =>
             /\ pc' = "classifying"
             /\ Len(sentiments') = Len(sentiments) + 1
             /\ SubSeq(sentiments', 1, Len(sentiments)) = sentiments]_vars
    /\ [][(pc = "classifying" /\ Len(sentiments) = Len(reviews)) =>
             (pc' = "analyzed" /\ sentiments' = sentiments)]_vars

C8_Witness ==
    /\ pc = "analyzed"
    /\ Len(reviews) = 3
    /\ reviews[1].content # None
    /\ Failed(1)
    /\ reviews[2].content = None
    /\ sentiments[3] = "NEGATIVE"

----------------------------------------------------------------------------
(* C9 *)

\* C9: a request whose url holds the domain and whose fetch yields no review
\* ends in the success payload with reviews_count = 0 and neither sentiment
\* nor common_issues, with no review classified; and for a url without
\* -i<digits> the list is empty and no page is requested.
C9_NoReviewsIsSuccess ==
    /\ (pc = "done" /\ Contains(url, DomainName) /\ reviews = <<>>) =>
           /\ response.status_code = 200
           /\ response.status = "success"
           /\ response.data.reviews_count = 0
           /\ "sentiment" \notin DOMAIN response.data
           /\ "common_issues" \notin DOMAIN response.data
           /\ calls = <<>>
    /\ LacksIdPattern(url) =>
           /\ requested = <<>>
           /\ reviews = <<>>
           /\ pc \notin {"fetching", "analyze_reviews", "classifying", "analyzed"}

C9_Witness ==
    /\ pc = "done"
    /\ Contains(url, DomainName)
    /\ reviews = <<>>
    /\ Len(requested) = 3

----------------------------------------------------------------------------
(* C10 *)

\* C10: the pages requested are 1, 2, ... in this order, each once and at most
\* max_pages of them, every page appends its reviews behind those collected
\* before and in the order of its items, and the call returns: a pass of the
\* loop is always possible, and each pass either ends the loop or moves on to
\* the next page number, which never exceeds max_pages.
C10_PagesInOrder ==
    /\ [](/\ Len(requested) <= max_pages
          /\ \A r \in 1..Len(requested) : requested[r].pageNo = r
          /\ pc = "fetching" => (page = Len(requested) + 1 /\ page <= max_pages)
          /\ pc = "fetching" => ENABLED FetchPage)
    /\ [][pc = "fetching" =>
             /\ requested' = Append(requested, [itemId |-> product_id, pageNo |-> page])
             /\ reviews' = reviews \o GoodPrefix(last')
             /\ \/ pc' = "fetched" /\ page' = page
                \/ pc' = "fetching" /\ page' = page + 1]_vars

\* the same as a liveness property of FetchSpec: the call returns
C10_Returns == <>(pc = "fetched")

C10_Witness ==
    /\ pc = "fetched"
    /\ max_pages = 3
    /\ Len(requested) = 3
    /\ Len(reviews) = 3
    /\ reviews[1] # reviews[2]
    /\ reviews[2] # reviews[3]
====
